---- MODULE Spec2Model ----
(***************************************************************************)
(* Row iteration over streamed Arrow record batches                         *)
(* (ArrowTableIterator.hpp, flight_double_roundtrip_client.cpp).            *)
(*                                                                          *)
(* A batch is identified by its 1-based index in the stream `src`; the      *)
(* null shared_ptr is NullBatch.  Pointer equality of batches is equality   *)
(* of indices.                                                              *)
(***************************************************************************)
EXTENDS Integers, Sequences, FiniteSets, TLC

VARIABLES
    src,     \* the batches the FlightStreamReader will deliver, in order
    chk,     \* the MetaChecker template argument of the views: its kind and,
             \* for a row-sensitive checker, the row indices it accepts
    pos,     \* StreamedBackend::reader_ : number of batches already delivered
    views,   \* the TableView objects created so far (all share backend_)
    it,      \* per view, the RowIterator last obtained from it:
             \* [live, batch, row]
    last,    \* the last operation: its kind, view, state before, events
    pc,      \* position of the range-for loop of main
    seen,    \* rows dereferenced by the range-for loop, in order
    call,    \* last direct call of MetadataFilter::check and its result
    rderr,   \* the reader's Next() after the last batch returns an error
             \* status (TRUE) or the end-of-stream value (FALSE)
    broken,  \* the user's MetaChecker throws when it is called
    rp       \* a RowProxy, and the last call made on it with its outcome

vars == <<src, chk, pos, views, it, last, pc, seen, call, rderr, broken, rp>>

----------------------------------------------------------------------------
(* Bounds *)

MaxBatches == 3
MaxRows == 2
MaxViews == 2
MaxSeen == (MaxBatches * MaxRows) + 1
MaxCols == 4

----------------------------------------------------------------------------
(* Schema metadata: std::shared_ptr<const KeyValueMetadata>, possibly null *)

ProcessTrueKey == "process"
ProcessTrueVal == "true"

Keys == {"process", "other"}
Values == {"true", "false", ""}

MdNull == [present |-> FALSE, kv |-> <<>>]
MdOf(f) == [present |-> TRUE, kv |-> f]

\* every metadata value over Keys and Values, plus the null pointer
Metadatas ==
    {MdNull} \cup
    UNION {{MdOf(f) : f \in [D -> Values]} : D \in SUBSET Keys}

\* the metadata shapes used for batches of a stream
BatchMetadatas ==
    { MdNull,
      MdOf([k \in {"other"} |-> "true"]),
      MdOf([k \in {"process"} |-> "true"]),
      MdOf([k \in {"process"} |-> "false"]) }

\* KeyValueMetadata::Get(key): Result<std::string>
Get(md, key) ==
    IF key \in DOMAIN md.kv
    THEN [ok |-> TRUE, val |-> md.kv[key]]
    ELSE [ok |-> FALSE, val |-> ""]

\* Result<T>::ValueOr(alternative)
ValueOr(res, alt) == IF res.ok THEN res.val ELSE alt

MetadataFilter_check_default(key, value, md) ==
    md.present /\ ValueOr(Get(md, key), value) = value

\* MetadataFilter<K,V>::check : md && md->Get(K).ValueOr("") == V
MetadataFilter_check(key, value, md) ==
    md.present /\ ValueOr(Get(md, key), "") = value

\* AllowAll::check
AllowAll_check(md) == TRUE

----------------------------------------------------------------------------
(* Batches and the stream *)

NullBatch == 0

\* The MetaChecker arguments: the two checkers of the header, and a
\* row-sensitive checker supplied by the user that accepts the row indices
\* in acc.
Filters ==
    {[kind |-> "AllowAll", acc |-> {}], [kind |-> "Metadata", acc |-> {}]}
    \cup {[kind |-> "Custom", acc |-> a] : a \in SUBSET (0..(MaxRows - 1))}

\* A batch: number of rows and schema metadata.  MetadataFilter gives one
\* verdict per batch, so its streams hold full batches of every metadata
\* shape and the empty accepted batch.
BatchesFor(f) ==
    IF f.kind = "Metadata"
    THEN {[rows |-> MaxRows, md |-> m] : m \in BatchMetadatas}
         \cup {[rows |-> 0, md |-> MdOf([k \in {"process"} |-> "true"])]}
    ELSE {[rows |-> n, md |-> MdNull] : n \in 0..MaxRows}

StreamsFor(f) == UNION {[1..n -> BatchesFor(f)] : n \in 0..MaxBatches}

num_rows(b) == src[b].rows

\* the table main sends has the fields i32, f64, bol, str
NumCols == 4

\* batch->num_columns() for the batches of main's stream
num_columns(b) == NumCols

\* MetaChecker::check(batch->schema(), batch, row)
MetaChecker_check(b, i) ==
    IF chk.kind = "AllowAll" THEN AllowAll_check(src[b].md)
    ELSE IF chk.kind = "Metadata"
    THEN MetadataFilter_check(ProcessTrueKey, ProcessTrueVal, src[b].md)
    ELSE i \in chk.acc

\* the user's MetaChecker::check ends by an exception
MetaChecker_throws(b, i) == chk.kind = "Custom" /\ broken

\* FlightStreamReader::Next() with p batches delivered: Result<batch>
reader_Next(p) ==
    IF p < Len(src) THEN [ok |-> TRUE, val |-> p + 1, pos |-> p + 1]
    ELSE IF rderr THEN [ok |-> FALSE, val |-> NullBatch, pos |-> p]
    ELSE [ok |-> TRUE, val |-> NullBatch, pos |-> p]

next_batch_again(p) ==
    LET res == reader_Next(p)
    IN  IF res.ok /\ res.val # NullBatch
        THEN [batch |-> IF res.val > 1 THEN res.val - 1 ELSE res.val,
              pos |-> res.pos]
        ELSE [batch |-> NullBatch, pos |-> res.pos]

\* StreamedBackend::next_batch :
\*   if (res.ok() && res.ValueUnsafe()) return res.ValueUnsafe();
\*   return nullptr;
next_batch(p) ==
    LET res == reader_Next(p)
    IN  IF res.ok /\ res.val # NullBatch
        THEN [batch |-> res.val, pos |-> res.pos]
        ELSE [batch |-> NullBatch, pos |-> res.pos]

----------------------------------------------------------------------------
(* RowIterator *)

PullEv(b) == [k |-> "pull", b |-> b, i |-> 0, r |-> FALSE]
CheckEv(b, i, r) == [k |-> "check", b |-> b, i |-> i, r |-> r]
ThrowEv(b, i) == [k |-> "throw", b |-> b, i |-> i, r |-> FALSE]

InBounds_inclusive(i, n) == i <= n

\* row_idx_ < batch_->num_rows()
InBounds(i, n) == i < n

PastEnd_early(i, n) == i + 1 >= n

\* ++row_idx_ >= batch_->num_rows()  (i is the incremented index)
PastEnd(i, n) == i >= n

Thrown_skip(b, i, p, ev) ==
    [batch |-> b, row |-> i + 1, pos |-> p,
     ev |-> Append(ev, ThrowEv(b, i)), failed |-> TRUE]

\* MetaChecker::check(schema, batch_, row_idx_) throws: nothing in
\* RowIterator catches, batch_ and row_idx_ stay as they are
Thrown(b, i, p, ev) ==
    [batch |-> b, row |-> i, pos |-> p,
     ev |-> Append(ev, ThrowEv(b, i)), failed |-> TRUE]

RECURSIVE advance_row_nosentinel(_, _, _, _)
advance_row_nosentinel(b, i, p, ev) ==
    IF b = NullBatch
    THEN [batch |-> NullBatch, row |-> i, pos |-> p, ev |-> ev,
          failed |-> FALSE]
    ELSE LET inb == InBounds(i, num_rows(b))
             r   == inb /\ MetaChecker_check(b, i)
             ev1 == IF inb THEN Append(ev, CheckEv(b, i, r)) ELSE ev
         IN  IF r
             THEN [batch |-> b, row |-> i, pos |-> p, ev |-> ev1,
                   failed |-> FALSE]
             ELSE IF PastEnd(i + 1, num_rows(b))
                  THEN LET nb == next_batch(p)
                       IN  advance_row_nosentinel(nb.batch, 0, nb.pos,
                               Append(ev1, PullEv(nb.batch)))
                  ELSE advance_row_nosentinel(b, i + 1, p, ev1)

\* RowIterator::advance_row on (batch_, row_idx_) with the reader at p;
\* ev collects the next_batch pulls and filter evaluations it makes.
\* failed: the call was left by an exception of MetaChecker::check (nothing
\* in RowIterator catches it); batch and row are then the members as the
\* exception left them.
RECURSIVE advance_row(_, _, _, _)
advance_row(b, i, p, ev) ==
    IF b = NullBatch
    THEN [batch |-> NullBatch, row |-> -1, pos |-> p, ev |-> ev,
          failed |-> FALSE]
    ELSE IF InBounds(i, num_rows(b)) /\ MetaChecker_throws(b, i)
    THEN Thrown(b, i, p, ev)
    ELSE LET inb == InBounds(i, num_rows(b))
             r   == inb /\ MetaChecker_check(b, i)
             ev1 == IF inb THEN Append(ev, CheckEv(b, i, r)) ELSE ev
         IN  IF r
             THEN [batch |-> b, row |-> i, pos |-> p, ev |-> ev1,
                   failed |-> FALSE]
             ELSE IF PastEnd(i + 1, num_rows(b))
                  THEN LET nb == next_batch(p)
                       IN  advance_row(nb.batch, 0, nb.pos,
                                       Append(ev1, PullEv(nb.batch)))
                  ELSE advance_row(b, i + 1, p, ev1)

RowIterator_noscan(p, end) ==
    IF end
    THEN [batch |-> NullBatch, row |-> -1, pos |-> p, ev |-> <<>>,
          failed |-> FALSE]
    ELSE LET nb == next_batch(p)
         IN  [batch |-> nb.batch, row |-> 0, pos |-> nb.pos,
              ev |-> <<PullEv(nb.batch)>>, failed |-> FALSE]

\* RowIterator::RowIterator(backend, end):
\*   if (!end) { advance_batch(); advance_row(); }  row_idx_ = end ? -1 : row_idx_
RowIterator(p, end) ==
    IF end
    THEN [batch |-> NullBatch, row |-> -1, pos |-> p, ev |-> <<>>,
          failed |-> FALSE]
    ELSE LET nb == next_batch(p)
         IN  advance_row(nb.batch, 0, nb.pos, <<PullEv(nb.batch)>>)

operator_inc_pull(b, i, p) ==
    IF b = NullBatch THEN RowIterator(p, FALSE)
    ELSE advance_row(b, i, p, <<>>)

\* RowIterator::operator++ : advance_row(); return *this
operator_inc(b, i, p) == advance_row(b, i, p, <<>>)

\* RowIterator::operator!=
operator_ne(a, o) == a.row # o.row \/ a.batch # o.batch

\* the iterator TableView::end() returns
EndIt == [batch |-> NullBatch, row |-> -1]

Cursor(x) == [batch |-> x.batch, row |-> x.row]

\* TransformerList<Ts...>::append<New> = TransformerList<Ts..., New>
append_front(ts, new) == <<new>> \o ts

append(ts, new) == Append(ts, new)

\* BaseTs of main
BaseTs == <<"Int32", "Double", "Boolean", "String">>

\* the transformer main adds to BaseTs
TransformerTypes == {"ReceiveAll"}

TableView_begin_rewind(p) == RowIterator(0, FALSE)

\* TableView::begin : RowIterator(backend_, false)
TableView_begin(p) == RowIterator(p, FALSE)

TableView_end_unset(p) == [RowIterator(p, TRUE) EXCEPT !.row = 0]

\* TableView::end : RowIterator(backend_, true)
TableView_end(p) == RowIterator(p, TRUE)

\* TableView::addTransformer<New> : a new view over the same backend_
TableView_addTransformer(vs, v, new) ==
    Append(vs, [schema |-> append(vs[v].schema, new),
                parent |-> v, added |-> new])

----------------------------------------------------------------------------
(* RowProxy<Transformers>: batch_, row_ and the Transformers of its view.   *)
(* Here a batch is given by the native types of its columns and its number  *)
(* of rows; the value of column c at row r is the token Value(bt, c, r).    *)

\* native storage types of the columns (StringArray has its own branch in get)
NativeTypes == {"Int32", "String"}

\* batch_ == nullptr
NoRecordBatch == [null |-> TRUE, cols |-> <<>>, rows |-> 0]

RecordBatches ==
    UNION {{[null |-> FALSE, cols |-> c, rows |-> n] : n \in 0..MaxRows} :
              c \in UNION {[1..k -> NativeTypes] : k \in 0..MaxCols}}

\* typed transformers, optionally followed by ReceiveAllTransformer as in main
Schemas ==
    LET typed == UNION {[1..k -> NativeTypes] : k \in 0..MaxCols}
    IN  typed \cup {append(ts, "ReceiveAll") : ts \in typed}

NoValue == [t |-> "", c |-> -1, r |-> -1]

\* what column c of the batch holds at row r (c counted from 0)
Value(bt, c, r) == [t |-> bt.cols[c + 1], c |-> c, r |-> r]

\* what a read through a null pointer, past the end of an array or through
\* a pointer cast to another array type may give
Garbage(t) == [t |-> t, c |-> -2, r |-> -2]

NoOutcome == [kind |-> "none", val |-> NoValue, vals |-> <<>>]

\* the call does not compile: TransformerAt<List, I> has no definition
OutOfRange == [kind |-> "out_of_range", val |-> NoValue, vals |-> <<>>]

\* the call does not compile: the transformer names no Arrow array type
IllFormed == [kind |-> "ill_formed", val |-> NoValue, vals |-> <<>>]

Returned(v) == [kind |-> "value", val |-> v, vals |-> <<>>]

ReturnedAll(vs) == [kind |-> "values", val |-> NoValue, vals |-> vs]

Crash == [kind |-> "crash", val |-> NoValue, vals |-> <<>>]

\* undefined behaviour in get<I> for a transformer of native type t
Undefined(t) == {Crash, Returned(Garbage(t))}

TransformerAt_wrap(ts, n) ==
    IF ts = <<>> THEN "none" ELSE ts[(n % Len(ts)) + 1]

\* TransformerAt<TransformerList<Head, Tail...>, N>::type; the primary
\* template is only declared, so there is no type for N >= sizeof...(Ts)
RECURSIVE TransformerAt(_, _)
TransformerAt(ts, n) ==
    IF ts = <<>> THEN "none"
    ELSE IF n = 0 THEN Head(ts)
    ELSE TransformerAt(Tail(ts), n - 1)

\* Transformer::forward of the identity transformers
forward(v) == v

\* Array::GetScalar(i) is an IndexError outside [0, length)
GetScalar_ok(bt, r) == 0 <= r /\ r < bt.rows

\* RowProxy::get<I>() : the set of outcomes the call can have
RowProxy_get(p, I) ==
    LET tr == TransformerAt(p.schema, I)
    IN  IF tr = "none" THEN {OutOfRange}
        ELSE IF tr = "ReceiveAll" THEN {IllFormed}
        ELSE IF p.batch.null THEN Undefined(tr)
        ELSE IF I >= Len(p.batch.cols) THEN Undefined(tr)
        ELSE IF p.batch.cols[I + 1] # tr THEN Undefined(tr)
        ELSE IF ~(0 <= p.row /\ p.row < p.batch.rows) THEN Undefined(tr)
        ELSE {Returned(forward(Value(p.batch, I, p.row)))}

Tcols_zero(ts) == 0

\* constexpr size_t Tcols = Transformers::size
Tcols(ts) == Len(ts)

\* for (size_t i = Tcols; i < ncol; ++i) { GetScalar; if ok push_back }
RECURSIVE receive_all_loop(_, _, _)
receive_all_loop(p, i, extras) ==
    IF i < Len(p.batch.cols)
    THEN receive_all_loop(p, i + 1,
             IF GetScalar_ok(p.batch, p.row)
             THEN Append(extras, Value(p.batch, i, p.row))
             ELSE extras)
    ELSE extras

\* RowProxy::receive_all() : the set of outcomes the call can have
RowProxy_receive_all(p) ==
    IF p.batch.null THEN {Crash, ReturnedAll(<<>>)}
    ELSE {ReturnedAll(receive_all_loop(p, Tcols(p.schema), <<>>))}

----------------------------------------------------------------------------
(* Initial states *)

NoIt == [live |-> FALSE, batch |-> NullBatch, row |-> -1]

NoOp == [op |-> "none", view |-> 0, pos0 |-> 0,
         pre |-> EndIt, ev |-> <<>>, failed |-> FALSE]

NoProxy == [batch |-> NoRecordBatch, row |-> -1, schema |-> <<>>,
            op |-> "none", arg |-> 0, out |-> NoOutcome]

NoCall == [done |-> FALSE, key |-> "", val |-> "", md |-> MdNull,
           res |-> FALSE]

InitCommon ==
    /\ chk \in Filters
    /\ src \in StreamsFor(chk)
    /\ pos = 0
    /\ views = <<[schema |-> BaseTs, parent |-> 0, added |-> ""]>>
    /\ it = [v \in 1..MaxViews |-> NoIt]
    /\ last = NoOp
    /\ seen = <<>>
    /\ call = NoCall
    /\ broken = FALSE
    /\ rp = NoProxy

Init == InitCommon /\ pc = "api" /\ rderr = FALSE

----------------------------------------------------------------------------
(* Operations of the interface, called in any order *)

\* auto it_v = views[v].begin();  when the constructor is left by an
\* exception no iterator is obtained.
Begin(v) ==
    /\ pc = "api"
    /\ v \in 1..Len(views)
    /\ LET r == TableView_begin(pos)
       IN  /\ it' = IF r.failed THEN it
                     ELSE [it EXCEPT ![v] = [live |-> TRUE,
                                             batch |-> r.batch,
                                             row |-> r.row]]
           /\ pos' = r.pos
           /\ last' = [op |-> "begin", view |-> v, pos0 |-> pos,
                       pre |-> EndIt, ev |-> r.ev, failed |-> r.failed]
    /\ UNCHANGED <<src, chk, views, pc, seen, call, rderr, broken, rp>>

\* ++it_v;
Inc(v) ==
    /\ pc = "api"
    /\ it[v].live
    /\ LET r == operator_inc(it[v].batch, it[v].row, pos)
       IN  /\ it' = [it EXCEPT ![v].batch = r.batch, ![v].row = r.row]
           /\ pos' = r.pos
           /\ last' = [op |-> "inc", view |-> v, pos0 |-> pos,
                       pre |-> Cursor(it[v]), ev |-> r.ev,
                       failed |-> r.failed]
    /\ UNCHANGED <<src, chk, views, pc, seen, call, rderr, broken, rp>>

\* auto v2 = views[v].addTransformer<t>();
AddTransformer(v, t) ==
    /\ pc = "api"
    /\ v \in 1..Len(views)
    /\ Len(views) < MaxViews
    /\ views' = TableView_addTransformer(views, v, t)
    /\ last' = [op |-> "add", view |-> v, pos0 |-> pos,
                pre |-> EndIt, ev |-> <<>>, failed |-> FALSE]
    /\ UNCHANGED <<src, chk, pos, it, pc, seen, call, rderr, broken, rp>>

Next ==
    \/ \E v \in 1..MaxViews : Begin(v)
    \/ \E v \in 1..MaxViews : Inc(v)
    \/ \E v \in 1..MaxViews, t \in TransformerTypes : AddTransformer(v, t)

Spec == Init /\ [][Next]_vars

----------------------------------------------------------------------------
(* The traversal of main:                                                   *)
(*   auto view = TableView<...>(backend).addTransformer<ReceiveAll>();      *)
(*   for (auto row : view) { ... }                                          *)
(* that is  it = view.begin(); while (it != view.end()) { *it; ++it; }      *)

LoopInit == InitCommon /\ pc = "start" /\ rderr = FALSE

\* the view of main: the base view extended by ReceiveAllTransformer
MainView ==
    /\ pc = "start"
    /\ views' = TableView_addTransformer(views, 1, "ReceiveAll")
    /\ last' = [op |-> "add", view |-> 1, pos0 |-> pos,
                pre |-> EndIt, ev |-> <<>>, failed |-> FALSE]
    /\ pc' = "begin"
    /\ UNCHANGED <<src, chk, pos, it, seen, call, rderr, broken, rp>>

\* auto it = view.begin();
LoopBegin ==
    /\ pc = "begin"
    /\ LET r == TableView_begin(pos)
       IN  /\ it' = [it EXCEPT ![2] = [live |-> TRUE,
                                       batch |-> r.batch, row |-> r.row]]
           /\ pos' = r.pos
           /\ last' = [op |-> "begin", view |-> 2, pos0 |-> pos,
                       pre |-> EndIt, ev |-> r.ev, failed |-> r.failed]
    /\ pc' = "test"
    /\ UNCHANGED <<src, chk, views, seen, call, rderr, broken, rp>>

\* it != view.end()
LoopTest ==
    /\ pc = "test"
    /\ pc' = IF operator_ne(Cursor(it[2]), Cursor(TableView_end(pos)))
             THEN "body" ELSE "done"
    /\ UNCHANGED <<src, chk, pos, views, it, last, seen, call, rderr, broken, rp>>

\* auto row = *it;  the loop body reads the row.  seen keeps the first
\* MaxSeen rows read (one more than any stream of the model holds).
LoopBody ==
    /\ pc = "body"
    /\ seen' = IF Len(seen) < MaxSeen
               THEN Append(seen, <<it[2].batch, it[2].row>>)
               ELSE seen
    /\ pc' = "inc"
    /\ UNCHANGED <<src, chk, pos, views, it, last, call, rderr, broken, rp>>

\* ++it
LoopInc ==
    /\ pc = "inc"
    /\ LET r == operator_inc(it[2].batch, it[2].row, pos)
       IN  /\ it' = [it EXCEPT ![2].batch = r.batch, ![2].row = r.row]
           /\ pos' = r.pos
           /\ last' = [op |-> "inc", view |-> 2, pos0 |-> pos,
                       pre |-> Cursor(it[2]), ev |-> r.ev,
                       failed |-> r.failed]
    /\ pc' = "test"
    /\ UNCHANGED <<src, chk, views, seen, call, rderr, broken, rp>>

LoopNext == MainView \/ LoopBegin \/ LoopTest \/ LoopBody \/ LoopInc

\* main runs on one thread that is never suspended for ever
LoopSpec == LoopInit /\ [][LoopNext]_vars /\ WF_vars(LoopNext)

----------------------------------------------------------------------------
(* MetadataFilter<K,V>::check applied to any key, value and metadata *)

MetaInit ==
    /\ chk = [kind |-> "Metadata", acc |-> {}]
    /\ src = <<>>
    /\ pos = 0
    /\ views = <<[schema |-> BaseTs, parent |-> 0, added |-> ""]>>
    /\ it = [v \in 1..MaxViews |-> NoIt]
    /\ last = NoOp
    /\ seen = <<>>
    /\ pc = "check"
    /\ call = NoCall
    /\ rderr = FALSE
    /\ broken = FALSE
    /\ rp = NoProxy

MetaCheck(key, val, md) ==
    /\ pc = "check"
    /\ call' = [done |-> TRUE, key |-> key, val |-> val, md |-> md,
                res |-> MetadataFilter_check(key, val, md)]
    /\ UNCHANGED <<src, chk, pos, views, it, last, pc, seen, rderr, broken, rp>>

MetaNext == \E key \in Keys, val \in Values, md \in Metadatas :
                MetaCheck(key, val, md)

MetaSpec == MetaInit /\ [][MetaNext]_vars

----------------------------------------------------------------------------
(* Vocabulary of the properties *)

\* the rows of the batches after the first p that the filter accepts
Visible(p) ==
    {c \in [batch : (p + 1)..Len(src), row : 0..MaxRows] :
        c.row < src[c.batch].rows /\ MetaChecker_check(c.batch, c.row)}

\* source order: batch order, then ascending row index
Before(c, d) ==
    c.batch < d.batch \/ (c.batch = d.batch /\ c.row < d.row)

FirstVisible(p) ==
    IF Visible(p) = {} THEN EndIt
    ELSE CHOOSE c \in Visible(p) : \A d \in Visible(p) : d = c \/ Before(c, d)

Exhausted(c) == ~operator_ne(c, Cursor(TableView_end(pos)))

Positioned(c) == c.batch # NullBatch

SeenAt(j) == [batch |-> seen[j][1], row |-> seen[j][2]]

----------------------------------------------------------------------------
(* C1: the rows read by a traversal (begin, then ++ until the end) are      *)
(* exactly the filter-accepted (batch, row) pairs, each once, in source     *)
(* order: every row read is accepted, the rows read before it are exactly   *)
(* the accepted rows that precede it in source order, and when the loop     *)
(* has stopped every accepted row has been read.                            *)
C1_TraversalYieldsAcceptedRowsInOrder ==
    /\ \A j \in 1..Len(seen) :
          /\ SeenAt(j) \in Visible(0)
          /\ \A c \in Visible(0) :
                Before(c, SeenAt(j)) <=> (\E k \in 1..(j - 1) : SeenAt(k) = c)
    /\ pc = "done" =>
          \A c \in Visible(0) : \E j \in 1..Len(seen) : SeenAt(j) = c

(* C2: operator++ on a Row Sequence positioned at (b, i) leaves it          *)
(* Exhausted or positioned strictly later in source order, never at (b, i). *)
C2_AdvanceMovesStrictlyForward ==
    (last.op = "inc" /\ Positioned(last.pre)) =>
        LET c == Cursor(it[last.view])
        IN  Exhausted(c) \/ Before(last.pre, c)

(* C3: over a finite stream the loop `for (row : view)` eventually leaves   *)
(* the loop: the iterator compares equal to end().                          *)
C3_TraversalTerminates == <>(pc = "done")

(* C4: right after construction a Row Sequence is at the first accepted     *)
(* row, in source order, of the batches the source still had to deliver;    *)
(* when there is none it compares equal to end().                           *)
C4_ConstructionFindsFirstAccepted ==
    last.op = "begin" =>
        LET c == Cursor(it[last.view])
        IN  /\ c = FirstVisible(last.pos0)
            /\ Visible(last.pos0) = {} <=> Exhausted(c)
            /\ Visible(last.pos0) # {} <=> Positioned(c)

\* a construction that scanned past a whole batch and past a rejected row
C4_Witness ==
    /\ last.op = "begin"
    /\ last.pos0 = 0
    /\ it[last.view].batch >= 2
    /\ it[last.view].row >= 1

\* a construction over a stream with rows, none accepted
C4_WitnessExhausted ==
    /\ last.op = "begin"
    /\ last.pos0 = 0
    /\ \E b \in 1..Len(src) : src[b].rows > 0
    /\ Exhausted(Cursor(it[last.view]))

(* C5: a batch without rows is skipped: no Row Sequence is positioned on    *)
(* it, the filter is not evaluated for it, and the pull that delivered it   *)
(* is followed at once by the next pull.                                    *)
C5_EmptyBatchSkipped ==
    /\ \A v \in 1..MaxViews :
          Positioned(it[v]) => src[it[v].batch].rows > 0
    /\ \A j \in 1..Len(last.ev) :
          LET e == last.ev[j]
          IN  /\ e.k = "check" => src[e.b].rows > 0
              /\ (e.k = "pull" /\ e.b # NullBatch /\ src[e.b].rows = 0) =>
                    (j < Len(last.ev) /\ last.ev[j + 1].k = "pull")

\* a construction that passed over an empty batch and stopped on a later row
C5_Witness ==
    /\ last.op = "begin"
    /\ Positioned(it[last.view])
    /\ \E j \in 1..Len(last.ev) :
          /\ last.ev[j].k = "pull"
          /\ last.ev[j].b # NullBatch
          /\ src[last.ev[j].b].rows = 0

(* C6: once every batch of the stream has been delivered and the source     *)
(* answers end-of-stream, begin() gives a Row Sequence that is Exhausted at *)
(* once: it equals end(), evaluates no row and delivers none.               *)
C6_ConsumedSourceGivesExhausted ==
    (last.op = "begin" /\ last.pos0 = Len(src)) =>
        /\ Exhausted(Cursor(it[last.view]))
        /\ last.ev = <<PullEv(NullBatch)>>
        /\ pos = Len(src)

\* an earlier Row Sequence ran into end-of-stream on a stream that had
\* accepted rows, and begin() was called again afterwards
C6_Witness ==
    /\ last.op = "begin"
    /\ last.view = 2
    /\ last.pos0 = Len(src)
    /\ Visible(0) # {}
    /\ it[1].live
    /\ Exhausted(Cursor(it[1]))
    /\ Exhausted(Cursor(it[2]))

(* C7: addTransformer gives a new view whose schema is the parent's schema  *)
(* followed by the added transformer (length n + 1, first n entries the     *)
(* parent's in order, last entry the new one), and no existing view, the    *)
(* parent included, changes.                                                *)
C7_AddTransformerAppendsAndKeepsParent ==
    [][\A v \in 1..Len(views') :
          IF v <= Len(views)
          THEN views'[v] = views[v]
          ELSE LET parent == views[views'[v].parent].schema
                   n == Len(parent)
               IN  /\ Len(views'[v].schema) = n + 1
                   /\ \A k \in 1..n : views'[v].schema[k] = parent[k]
                   /\ views'[v].schema[n + 1] = views'[v].added
                   /\ Len(views[views'[v].parent].schema) = n]_vars

\* a view derived from the base view by adding ReceiveAllTransformer
C7_Witness ==
    /\ last.op = "add"
    /\ Len(views) >= 2
    /\ views[Len(views)].parent = 1
    /\ views[Len(views)].added = "ReceiveAll"
    /\ Len(views[Len(views)].schema) = Len(BaseTs) + 1
    /\ views[1].schema = BaseTs

\* the step is a begin() or ++ through a view made by addTransformer
DerivedStep ==
    /\ last' # last
    /\ last'.op \in {"begin", "inc"}
    /\ views[last'.view].parent # 0

(* C8 (as claimed): nothing done through a derived view changes the rows a  *)
(* later rows() of the parent yields: the Row Sequence the parent's begin() *)
(* would give is the same before and after every operation on the derived   *)
(* view.                                                                    *)
C8_DerivedLeavesParentTraversalUnchanged ==
    [][DerivedStep =>
          Cursor(TableView_begin(pos')) = Cursor(TableView_begin(pos))]_vars

(* C8 (amended): a derived view shares the batch source, and nothing else,  *)
(* with its parent.  addTransformer pulls nothing and changes no Row        *)
(* Sequence; an operation through the derived view only moves the shared    *)
(* source forward, and the parent's next begin() is at the first accepted   *)
(* row of the batches not yet pulled through either view.                   *)
C8_DerivedSharesOnlyTheSource ==
    [][/\ (last' # last /\ last'.op = "add") =>
              /\ pos' = pos
              /\ it' = it
              /\ Cursor(TableView_begin(pos')) = Cursor(TableView_begin(pos))
       /\ DerivedStep =>
              /\ pos' >= pos
              /\ Cursor(TableView_begin(pos')) = FirstVisible(pos')]_vars

\* begin() through the derived view pulled batches, and the parent's next
\* begin() no longer starts where it would have started
C8_Witness ==
    /\ last.op = "begin"
    /\ views[last.view].parent # 0
    /\ pos > last.pos0
    /\ Cursor(TableView_begin(pos)) # Cursor(TableView_begin(last.pos0))
    /\ Cursor(TableView_begin(pos)) = FirstVisible(pos)

(* C9: MetadataFilter<key, value>::check is true exactly when the metadata  *)
(* map exists and maps key to value; a map without the key gives false.     *)
C9_MetadataEqualsIffKeyHasValue ==
    call.done =>
        (call.res <=> /\ call.md.present
                      /\ call.key \in DOMAIN call.md.kv
                      /\ call.md.kv[call.key] = call.val)

\* the metadata maps "process" to "true"
ProcessTrue(md) ==
    /\ md.present
    /\ "process" \in DOMAIN md.kv
    /\ md.kv["process"] = "true"

(* C10: under MetadataFilter<"process","true"> no Row Sequence is ever      *)
(* positioned on a batch whose metadata lacks "process" or maps it to       *)
(* another value, and construction goes on past such batches to the first   *)
(* batch with rows whose metadata maps "process" to "true".                 *)
C10_RejectedBatchesInvisible ==
    chk.kind = "Metadata" =>
        /\ \A v \in 1..MaxViews :
              Positioned(it[v]) => ProcessTrue(src[it[v].batch].md)
        /\ last.op = "begin" =>
              LET ok == {b \in (last.pos0 + 1)..Len(src) :
                            src[b].rows > 0 /\ ProcessTrue(src[b].md)}
              IN  ok # {} =>
                     /\ it[last.view].batch \in ok
                     /\ \A b \in ok : it[last.view].batch <= b
                     /\ it[last.view].row = 0

\* a batch without the key and a batch with "process" -> "false", both with
\* rows, were passed over and the Row Sequence stands on the third batch
C10_Witness ==
    /\ chk.kind = "Metadata"
    /\ last.op = "begin"
    /\ Len(src) = 3
    /\ src[1].rows > 0 /\ src[1].md.present
    /\ "process" \notin DOMAIN src[1].md.kv
    /\ src[2].rows > 0 /\ src[2].md.present
    /\ "process" \in DOMAIN src[2].md.kv /\ src[2].md.kv["process"] = "false"
    /\ it[last.view].batch = 3

----------------------------------------------------------------------------
(* RowProxy::get and RowProxy::receive_all on any proxy *)

ProxyInit ==
    /\ chk = [kind |-> "AllowAll", acc |-> {}]
    /\ src = <<>>
    /\ pos = 0
    /\ views = <<[schema |-> BaseTs, parent |-> 0, added |-> ""]>>
    /\ it = [v \in 1..MaxViews |-> NoIt]
    /\ last = NoOp
    /\ seen = <<>>
    /\ pc = "proxy"
    /\ call = NoCall
    /\ rderr = FALSE
    /\ broken = FALSE
    /\ rp \in {[batch |-> b, row |-> r, schema |-> ts, op |-> "none",
                arg |-> 0, out |-> NoOutcome] :
                  b \in RecordBatches \cup {NoRecordBatch},
                  r \in (-1)..MaxRows, ts \in Schemas}

\* row.get<I>()
ProxyGet(I) ==
    /\ pc = "proxy"
    /\ \E o \in RowProxy_get(rp, I) :
          rp' = [rp EXCEPT !.op = "get", !.arg = I, !.out = o]
    /\ UNCHANGED <<src, chk, pos, views, it, last, pc, seen, call, rderr,
                   broken>>

\* row.receive_all()
ProxyReceiveAll ==
    /\ pc = "proxy"
    /\ \E o \in RowProxy_receive_all(rp) :
          rp' = [rp EXCEPT !.op = "receive_all", !.arg = 0, !.out = o]
    /\ UNCHANGED <<src, chk, pos, views, it, last, pc, seen, call, rderr,
                   broken>>

ProxyNext ==
    \/ \E I \in 0..(MaxCols + 1) : ProxyGet(I)
    \/ ProxyReceiveAll

ProxySpec == ProxyInit /\ [][ProxyNext]_vars

\* the proxy refers to an existing row of an existing batch
ValidRow(p) == ~p.batch.null /\ 0 <= p.row /\ p.row < p.batch.rows

----------------------------------------------------------------------------
(* C11: receive_all on a row of a batch with c columns, under a schema of   *)
(* length n, returns the values of columns n, n+1, ..., c-1 at that row, in *)
(* that order, and the empty sequence when c <= n.                          *)
C11_ReceiveAllReturnsTrailingColumns ==
    (rp.op = "receive_all" /\ ValidRow(rp)) =>
        LET c == Len(rp.batch.cols)
            n == Len(rp.schema)
        IN  /\ rp.out.kind = "values"
            /\ Len(rp.out.vals) = (IF c > n THEN c - n ELSE 0)
            /\ \A k \in 1..Len(rp.out.vals) :
                  rp.out.vals[k] = [t |-> rp.batch.cols[n + k],
                                    c |-> n + k - 1, r |-> rp.row]

\* four columns, two transformers: the two trailing values
C11_Witness ==
    /\ rp.op = "receive_all"
    /\ ValidRow(rp)
    /\ Len(rp.batch.cols) = 4
    /\ Len(rp.schema) = 2
    /\ Len(rp.out.vals) = 2
    /\ rp.out.vals[1].c = 2
    /\ rp.out.vals[2].c = 3

----------------------------------------------------------------------------
(* The interface over a reader whose stream ends in a read error *)

ErrInit == InitCommon /\ pc = "api" /\ rderr = TRUE

ErrSpec == ErrInit /\ [][Next]_vars

\* the last call pulled from the reader and the reader answered with an error
HitReadError ==
    /\ last.op \in {"begin", "inc"}
    /\ rderr
    /\ \E j \in 1..Len(last.ev) : last.ev[j] = PullEv(NullBatch)

(* C12: when the reader reports an error instead of a batch, the call that  *)
(* pulled (rows()/begin() or ++) ends in a failure the caller can tell from *)
(* the end of the stream, and the Row Sequence is Exhausted afterwards.     *)
C12_ReadErrorReachesCaller ==
    HitReadError =>
        /\ last.failed
        /\ it[last.view].live => Exhausted(Cursor(it[last.view]))

----------------------------------------------------------------------------
(* C13: get<I> with I at or beyond the length of the Transformer Schema     *)
(* ends in the out-of-range condition and returns no value, whatever the    *)
(* row and the batch, also when the batch has a column at index I.          *)
C13_GetBeyondSchemaIsOutOfRange ==
    (rp.op = "get" /\ rp.arg >= Len(rp.schema)) =>
        /\ rp.out.kind = "out_of_range"
        /\ rp.out.val = NoValue

\* the batch has the column and the row, the schema has no transformer for it
C13_Witness ==
    /\ rp.op = "get"
    /\ rp.arg >= Len(rp.schema)
    /\ Len(rp.schema) > 0
    /\ ValidRow(rp)
    /\ rp.arg < Len(rp.batch.cols)
    /\ rp.out = OutOfRange

----------------------------------------------------------------------------
\* get<I> compiles: the schema has a typed transformer at I
WellFormedGet(p, I) == TransformerAt(p.schema, I) \in NativeTypes

(* C14: get<I> on a column whose native storage type differs from the type  *)
(* declared by the transformer at I fails with a type-mismatch condition    *)
(* and returns no value read from the column under the other type.          *)
C14_GetOnOtherTypeIsTypeMismatch ==
    (/\ rp.op = "get"
     /\ WellFormedGet(rp, rp.arg)
     /\ ValidRow(rp)
     /\ rp.arg < Len(rp.batch.cols)
     /\ rp.batch.cols[rp.arg + 1] # TransformerAt(rp.schema, rp.arg)) =>
        rp.out.kind = "type_mismatch"

----------------------------------------------------------------------------
(* C18: an access with a row index outside [0, rowCount), in particular     *)
(* through the Row View of an Exhausted Row Sequence (no batch, row -1),    *)
(* ends in the out-of-range condition: neither get nor receiveAll returns.  *)
C18_RowOutsideBatchIsOutOfRange ==
    (/\ ~ValidRow(rp)
     /\ \/ rp.op = "get" /\ WellFormedGet(rp, rp.arg)
        \/ rp.op = "receive_all") =>
        rp.out.kind = "out_of_range"

----------------------------------------------------------------------------
\* Positioned: a batch is held, the row index is inside it, the row is accepted
AtAcceptedRow(c) ==
    /\ c.batch # NullBatch
    /\ 0 <= c.row
    /\ c.row < num_rows(c.batch)
    /\ MetaChecker_check(c.batch, c.row)

\* Exhausted: no batch is held and the row index is the sentinel
AtSentinel(c) == c.batch = NullBatch /\ c.row = -1

(* C15: whenever a Row Sequence can be observed it is in exactly one of two *)
(* states, Positioned (batch held, 0 <= row < rowCount, row accepted by the *)
(* filter) or Exhausted (no batch, row = -1), and it compares equal to      *)
(* end() exactly when its row index is the sentinel.                        *)
C15_PositionedOrExhausted ==
    \A v \in 1..MaxViews :
        it[v].live =>
            /\ AtAcceptedRow(it[v]) # AtSentinel(it[v])
            /\ Exhausted(Cursor(it[v])) <=> (it[v].row = -1)

\* after a ++, one Row Sequence is Positioned while another is Exhausted
C15_Witness ==
    /\ last.op = "inc"
    /\ \E v, w \in 1..MaxViews :
          /\ it[v].live /\ AtAcceptedRow(it[v])
          /\ it[w].live /\ AtSentinel(it[w])

----------------------------------------------------------------------------
(* C16: Exhausted is terminal: ++ on an Exhausted Row Sequence leaves it    *)
(* Exhausted, pulls no batch from the source and evaluates no filter.       *)
C16_ExhaustedIsTerminal ==
    (last.op = "inc" /\ last.pre = EndIt) =>
        /\ AtSentinel(it[last.view])
        /\ last.ev = <<>>
        /\ pos = last.pos0
        /\ ~last.failed

\* ++ on an Exhausted Row Sequence of a source that delivered batches
C16_Witness ==
    /\ last.op = "inc"
    /\ last.pre = EndIt
    /\ Len(src) > 0
    /\ AtSentinel(it[last.view])

----------------------------------------------------------------------------
\* the j-th event of the last call is a pull made where the code may pull:
\* first thing in the constructor of a non-end iterator, or in advance_row
\* right after the row index reached the row count of the batch held
PullInPlace(j) ==
    \/ j = 1 /\ last.op = "begin"
    \/ /\ j > 1
       /\ LET e == last.ev[j - 1]
          IN  /\ e.b # NullBatch
              /\ \/ e.k = "pull" /\ num_rows(e.b) = 0
                 \/ e.k = "check" /\ ~e.r /\ e.i + 1 = num_rows(e.b)

\* the batch the Row Sequence of the last call holds after the j-th event
HeldAfter(j) ==
    LET pulls == {k \in 1..j : last.ev[k].k = "pull"}
    IN  IF pulls = {} THEN last.pre.batch
        ELSE last.ev[CHOOSE k \in pulls : \A m \in pulls : m <= k].b

(* C17: batches are handed over one at a time. A Row Sequence pulls only    *)
(* when a non-end sequence is constructed and, while advancing, only when   *)
(* the row index has reached the row count of the batch it holds; end() and *)
(* addTransformer pull nothing; each pull replaces the batch held by the    *)
(* next batch of the stream, so every filter evaluation is on the batch     *)
(* pulled last; after the end of the stream was received nothing is pulled. *)
C17_BatchesPulledOneAtATime ==
    /\ TableView_end(pos).ev = <<>>
    /\ TableView_end(pos).pos = pos
    /\ last.op = "add" => (last.ev = <<>> /\ pos = last.pos0)
    /\ \A j \in 1..Len(last.ev) :
          /\ last.ev[j].k = "pull" => PullInPlace(j)
          /\ last.ev[j] = PullEv(NullBatch) => j = Len(last.ev)
          /\ last.ev[j].k = "check" => last.ev[j].b = HeldAfter(j)
    /\ last.op \in {"begin", "inc"} =>
          /\ it[last.view].batch = HeldAfter(Len(last.ev))
          /\ pos - last.pos0 =
                Cardinality({j \in 1..Len(last.ev) :
                    last.ev[j].k = "pull" /\ last.ev[j].b # NullBatch})
          /\ \A j \in 1..Len(last.ev) :
                (last.ev[j].k = "pull" /\ last.ev[j].b # NullBatch) =>
                    last.ev[j].b = last.pos0 + Cardinality(
                        {k \in 1..j : last.ev[k].k = "pull"})

\* a constructor that rejected the last row of a two-row batch, pulled the
\* next batch and went on until the stream ended
C17_Witness ==
    /\ last.op = "begin"
    /\ Len(last.ev) > 3
    /\ last.ev[Len(last.ev)] = PullEv(NullBatch)
    /\ \E j \in 2..(Len(last.ev) - 1) :
          /\ last.ev[j].k = "pull"
          /\ last.ev[j - 1].k = "check"
          /\ last.ev[j - 1].i = 1
          /\ num_rows(last.ev[j].b) = 0

----------------------------------------------------------------------------
(* The interface with a user-supplied filter that can start to fail *)

\* from now on the user's MetaChecker::check throws instead of answering
BreakFilter ==
    /\ pc = "api"
    /\ chk.kind = "Custom"
    /\ ~broken
    /\ broken' = TRUE
    /\ UNCHANGED <<src, chk, pos, views, it, last, pc, seen, call, rderr, rp>>

FailNext == Next \/ BreakFilter

FailSpec == Init /\ [][FailNext]_vars

(* C19: when the filter fails while a row (b, i) is being scanned, the call *)
(* ends in that failure and the Row Sequence has not gone past the row: the *)
(* failure is the last thing the call did, batch b is the batch held, no    *)
(* batch was pulled after it, no row was accepted by the call, and the      *)
(* cursor of the advanced sequence is still at (b, i).                      *)
C19_FilterFailureStopsAtRow ==
    last.failed =>
        LET n == Len(last.ev)
        IN  /\ n > 0
            /\ last.ev[n].k = "throw"
            /\ \A j \in 1..(n - 1) :
                  last.ev[j].k # "throw" /\ ~last.ev[j].r
            /\ last.ev[n].b # NullBatch
            /\ last.ev[n].b = HeldAfter(n)
            /\ pos - last.pos0 =
                  Cardinality({j \in 1..(n - 1) : last.ev[j].k = "pull"})
            /\ last.op = "inc" =>
                  Cursor(it[last.view]) =
                      [batch |-> last.ev[n].b, row |-> last.ev[n].i]

\* ++ on a Positioned sequence met the failing filter while the source still
\* had a batch to give
C19_Witness ==
    /\ last.op = "inc"
    /\ last.failed
    /\ pos < Len(src)
    /\ it[last.view].batch = pos
    /\ it[last.view].row = last.ev[1].i

----------------------------------------------------------------------------
(* C20: every Row View the program produces has a Transformer Schema no     *)
(* longer than the column count of the batch its row belongs to.            *)
C20_SchemaNoLongerThanBatch ==
    \A v \in 1..Len(views) :
        (it[v].live /\ AtAcceptedRow(it[v])) =>
            Len(views[v].schema) <= num_columns(it[v].batch)

----------------------------------------------------------------------------
\* the Row Sequence of view v holds a batch
Holds(x, v) == x[v].live /\ x[v].batch # NullBatch

(* C21: two Row Sequences of Table Views on the same Batch Source, advanced *)
(* in any interleaving, never get the same batch: a batch a sequence comes  *)
(* to hold is one the source had not delivered before and is delivered to   *)
(* the sequence of the call only, the other sequence keeps what it holds,   *)
(* no two sequences hold the same batch, so no (batch, row) is visible      *)
(* through both, and the batches one sequence holds over time follow the    *)
(* order of the source.                                                     *)
C21_EachBatchHandedToOneSequence ==
    [][/\ \A v \in 1..MaxViews :
             Holds(it', v) =>
                 \/ Holds(it, v) /\ it'[v].batch = it[v].batch
                 \/ /\ v = last'.view
                    /\ it'[v].batch > pos
                    /\ it'[v].batch <= pos'
       /\ \A v \in 1..MaxViews :
             /\ Holds(it, v) => it[v].batch <= pos
             /\ (v # last'.view) => it'[v] = it[v]
       /\ \A v, w \in 1..MaxViews :
             (v # w /\ Holds(it', v) /\ Holds(it', w)) =>
                 it'[v].batch # it'[w].batch
       /\ \A j \in 1..Len(last'.ev) :
             (last'.ev[j].k = "pull" /\ last'.ev[j].b # NullBatch) =>
                 /\ last'.ev[j].b > pos
                 /\ last'.ev[j].b <= pos'
       /\ (last'.op = "inc" /\ Holds(it, last'.view)
                            /\ Holds(it', last'.view)) =>
             it'[last'.view].batch >= it[last'.view].batch]_vars

\* both sequences are on a row, of different batches, and the sequence made
\* first was advanced after the other one had pulled its batch
C21_Witness ==
    /\ last.op = "inc"
    /\ last.view = 1
    /\ Holds(it, 1)
    /\ Holds(it, 2)
    /\ it[1].batch < it[2].batch
    /\ Len(views) = 2

====
